---- MODULE Spec2Model ----
(***************************************************************************)
(* A model of Whisper.py: the request handler transcribe_audio, the        *)
(* transcription adapter it calls, the output file it writes, and the      *)
(* path, timestamp and text-encoding functions it relies on.               *)
(*                                                                         *)
(* A string is the sequence of its pieces: a path or a transcribed text is *)
(* the sequence of its characters, a message built from literals keeps     *)
(* each literal as one piece.  File contents are sequences of bytes.       *)
(***************************************************************************)
EXTENDS Integers, Sequences, FiniteSets, TLC

\* ------------------------------------------------------------------ bounds
\* longest transcribed text, in code points
MaxLen == 1
\* longest uploaded file path the handler specifications draw, in characters
MaxUploadLen == 2
\* longest uploaded file path of the concurrent specification
MaxConcUploadLen == 1
\* longest path of the path-function specification, in characters
MaxPathLen == 4
\* seconds the wall clock may advance in the handler specifications
MaxClock == 2
\* requests handled in one run
MaxRequests == 2

\* ------------------------------------------------------- general sequences
\* Python's None, a value no string equals
None == <<"None">>

Append2(s, a, b) == Append(Append(s, a), b)

Range(s) == {s[i] : i \in 1..Len(s)}

SeqsUpTo(S, n) == UNION {[1..k -> S] : k \in 0..n}

Max(a, b) == IF a >= b THEN a ELSE b

Last(s) == s[Len(s)]

\* s[i..] of Python for a 1-based first index
From(s, i) == SubSeq(s, i, Len(s))

\* str.rfind(c) + 1: the last 1-based index of c in s, 0 when absent
RFind(s, c) ==
  LET hits == {i \in 1..Len(s) : s[i] = c}
  IN IF hits = {} THEN 0 ELSE CHOOSE i \in hits : \A j \in hits : j <= i

\* ------------------------------------------------------------- os.path
\* posixpath.basename: everything after the last separator
basename(p) == From(p, RFind(p, "/") + 1)

\* splitext that cuts at the first dot of the file name instead of the last
splitext_first_dot(p) ==
  LET sepIndex == RFind(p, "/")
      dots     == {i \in (sepIndex + 1)..Len(p) : p[i] = "."}
      first    == CHOOSE i \in dots : \A j \in dots : i <= j
  IN IF dots # {} /\ (\E k \in (sepIndex + 1)..(first - 1) : p[k] # ".")
       THEN <<SubSeq(p, 1, first - 1), From(p, first)>>
       ELSE <<p, <<>>>>

\* genericpath._splitext: the extension starts at the last dot that follows
\* the last separator, unless only dots precede it in the file name
splitext(p) ==
  LET sepIndex == RFind(p, "/")
      dotIndex == RFind(p, ".")
      named    == \E k \in (sepIndex + 1)..(dotIndex - 1) : p[k] # "."
  IN IF dotIndex > sepIndex /\ named
       THEN <<SubSeq(p, 1, dotIndex - 1), From(p, dotIndex)>>
       ELSE <<p, <<>>>>

\* posixpath.join of two components
join(a, b) ==
  IF Len(b) > 0 /\ b[1] = "/" THEN b
  ELSE IF Len(a) = 0 \/ a[Len(a)] = "/" THEN a \o b
  ELSE a \o <<"/">> \o b

OUTPUT_DIR == <<"T", "r", "a", "n", "s", "c", "r", "i", "p", "t", "i", "o", "n", "s">>

LANGUAGE == "ta"

\* ------------------------------------------------------- datetime.strftime
\* the wall clock counts seconds from this local date and time
ClockOrigin == [year |-> 2023, month |-> 12, day |-> 31, sec |-> 86399]

IsLeap(y) == (y % 4 = 0 /\ y % 100 # 0) \/ y % 400 = 0

DaysInMonth(y, m) ==
  IF m = 2 THEN (IF IsLeap(y) THEN 29 ELSE 28)
  ELSE IF m \in {4, 6, 9, 11} THEN 30 ELSE 31

NextDay(d) ==
  IF d.day < DaysInMonth(d.year, d.month) THEN [d EXCEPT !.day = d.day + 1]
  ELSE IF d.month < 12 THEN [d EXCEPT !.day = 1, !.month = d.month + 1]
  ELSE [d EXCEPT !.day = 1, !.month = 1, !.year = d.year + 1]

RECURSIVE AddDays(_, _)
AddDays(d, n) == IF n = 0 THEN d ELSE AddDays(NextDay(d), n - 1)

\* datetime.datetime.now() when the clock reads t
DateTimeAt(t) ==
  LET total == ClockOrigin.sec + t
      d     == AddDays([year |-> ClockOrigin.year, month |-> ClockOrigin.month,
                        day |-> ClockOrigin.day], total \div 86400)
      s     == total % 86400
  IN [year |-> d.year, month |-> d.month, day |-> d.day,
      hour |-> s \div 3600, minute |-> (s % 3600) \div 60, second |-> s % 60]

Digit(k) == <<"0", "1", "2", "3", "4", "5", "6", "7", "8", "9">>[k + 1]

\* the decimal digits of n, zero-padded to at least w characters
RECURSIVE Pad(_, _)
Pad(n, w) ==
  IF n < 10 /\ w <= 1 THEN <<Digit(n)>>
  ELSE Pad(n \div 10, w - 1) \o <<Digit(n % 10)>>

\* strftime("%Y%m%d_%H%M"): the seconds are left out
strftime_minutes(dt) ==
  Pad(dt.year, 4) \o Pad(dt.month, 2) \o Pad(dt.day, 2) \o <<"_">>
    \o Pad(dt.hour, 2) \o Pad(dt.minute, 2)

\* strftime("%Y%m%d_%H%M%S")
strftime(dt) ==
  Pad(dt.year, 4) \o Pad(dt.month, 2) \o Pad(dt.day, 2) \o <<"_">>
    \o Pad(dt.hour, 2) \o Pad(dt.minute, 2) \o Pad(dt.second, 2)

\* --------------------------------------------------------- UTF-8 encoding
\* the characters a transcription is made of, and Python's ord() of each
TextChars == {"a", "U+0B85"}

ord(ch) == IF ch = "a" THEN 97 ELSE 2949

\* the bytes of the code point c
EncodeChar(c) ==
  IF c < 128 THEN <<c>>
  ELSE IF c < 2048 THEN <<192 + (c \div 64), 128 + (c % 64)>>
  ELSE IF c < 65536
    THEN <<224 + (c \div 4096), 128 + ((c \div 64) % 64), 128 + (c % 64)>>
  ELSE <<240 + (c \div 262144), 128 + ((c \div 4096) % 64),
         128 + ((c \div 64) % 64), 128 + (c % 64)>>

\* str.encode("utf-8")
RECURSIVE Encode(_)
Encode(text) ==
  IF text = <<>> THEN <<>>
  ELSE EncodeChar(ord(Head(text))) \o Encode(Tail(text))

\* a write of data at offset 0 of a file holding old: the bytes beyond the
\* written ones stay
WriteAt0(old, data) ==
  [i \in 1..Max(Len(old), Len(data)) |-> IF i <= Len(data) THEN data[i] ELSE old[i]]

\* ------------------------------------------------------------- exceptions
RuntimeError(msg) == [type |-> "RuntimeError", args |-> <<msg>>, filename |-> None]

OSError(type, errno, strerror, filename) ==
  [type |-> type, args |-> <<errno, strerror>>, filename |-> filename]

\* the classes that derive from Exception
ExceptionClasses == {"RuntimeError", "OSError", "FileNotFoundError", "PermissionError"}

OSErrorClasses == {"OSError", "FileNotFoundError", "PermissionError"}

\* str(e): an OSError shows "[Errno n] text" and its file name in quotes,
\* any other exception shows its one argument, or nothing when it has none
str(e) ==
  IF e.type \in OSErrorClasses
    THEN <<"[Errno ">> \o e.args[1] \o <<"] ", e.args[2]>>
           \o (IF e.filename = None THEN <<>>
               ELSE <<": '">> \o e.filename \o <<"'">>)
  ELSE IF Len(e.args) = 0 THEN <<>>
  ELSE <<e.args[1]>>

\* what model.transcribe can raise for the file at path a: the decoder is
\* missing, or the audio cannot be decoded
TranscribeErrors(a) ==
  { OSError("FileNotFoundError", Pad(2, 1), "No such file or directory",
            <<"f", "f", "m", "p", "e", "g">>),
    RuntimeError("Failed to load audio") }

\* what open(path, "w") can raise
OpenErrors(path) == { OSError("PermissionError", Pad(13, 1), "Permission denied", path) }

\* what writing and closing the file can raise
WriteErrors == { OSError("OSError", Pad(28, 1), "No space left on device", None) }

\* ------------------------------------------------------------------ inputs
Texts == SeqsUpTo(TextChars, MaxLen)

PathChars == {"/", ".", "a"}

\* a path that names a file: its last component is a file name
IsFilePath(p) ==
  /\ Len(p) > 0
  /\ p[Len(p)] # "/"
  /\ basename(p) \notin {<<".">>, <<".", ".">>}

Uploads == {p \in SeqsUpTo(PathChars, MaxUploadLen) : IsFilePath(p)}

ConcUploads == {p \in SeqsUpTo(PathChars, MaxConcUploadLen) : IsFilePath(p)}

Paths == {p \in SeqsUpTo(PathChars, MaxPathLen) : IsFilePath(p)}

Procs == {1, 2}

\* ------------------------------------------------------------------- state
VARIABLES
  handle,    \* the model handle: device and fp16_mode, set at startup
  now,       \* the wall clock, in seconds
  files,     \* the file system: path |-> bytes, for the files that exist
  users,     \* path |-> who opened the file last, then who wrote to it since
  req,       \* per worker: the position and locals of the request it handles,
             \* with the calls it has made (trace) and the files at its start
  history    \* the requests handled so far, in the order they returned

vars == <<handle, now, files, users, req, history>>

Idle ==
  [pc |-> "idle", audio_file_path |-> None, transcribed_text |-> None,
   timestamp |-> None, output_txt_path |-> None, e |-> None,
   result |-> <<>>, trace |-> <<>>, before |-> <<>>]

\* lines 12-30: the output directory exists and is empty, the device and the
\* precision flag are chosen once
Init ==
  /\ handle \in {[device |-> "cuda", fp16_mode |-> TRUE],
                 [device |-> "cpu", fp16_mode |-> FALSE]}
  /\ now = 0
  /\ files = <<>>
  /\ users = <<>>
  /\ req = [p \in Procs |-> Idle]
  /\ history = <<>>

Started == Len(history) + Cardinality({p \in Procs : req[p].pc # "idle"})

Put(f, k, v) == [x \in DOMAIN f \cup {k} |-> IF x = k THEN v ELSE f[x]]

Set(p, r) == req' = [req EXCEPT ![p] = r]

\* the clock advances by a second
Tick ==
  /\ now < MaxClock
  /\ now' = now + 1
  /\ UNCHANGED <<handle, files, users, req, history>>

\* ------------------------------------------------------ transcribe_audio
\* the framework calls the handler with the uploaded file's path, or None
Call(p, a) ==
  /\ req[p].pc = "idle"
  /\ Started < MaxRequests
  /\ Set(p, [Idle EXCEPT !.pc = "line38", !.audio_file_path = a, !.before = files])
  /\ UNCHANGED <<handle, now, files, users, history>>

\* the check of line 38 left out: the call goes on and fails on None
NoFileFallsThrough(p) ==
  /\ req[p].pc = "line38"
  /\ req[p].audio_file_path = None
  /\ Set(p, [req[p] EXCEPT !.pc = "except",
                           !.e = RuntimeError("expected str, got NoneType")])
  /\ UNCHANGED <<handle, now, files, users, history>>

\* lines 38-39
NoFile(p) ==
  /\ req[p].pc = "line38"
  /\ req[p].audio_file_path = None
  /\ Set(p, [req[p] EXCEPT !.pc = "returned",
                           !.result = <<<<"Please upload an audio file.">>, None>>])
  /\ UNCHANGED <<handle, now, files, users, history>>

\* an except clause that names RuntimeError only
RaiseRuntimeOnly(r, e) ==
  [r EXCEPT !.e = e,
            !.pc = IF e.type = "RuntimeError" THEN "except" ELSE "raised"]

\* lines 41, 67: an exception raised inside the try block reaches the
\* except clause when its class derives from Exception
Raise(r, e) ==
  [r EXCEPT !.e = e,
            !.pc = IF e.type \in ExceptionClasses THEN "except" ELSE "raised"]

\* the call model.transcribe(audio_file_path, language=LANGUAGE, fp16=fp16_mode)
TranscribeCall(r) ==
  [op |-> "transcribe", audio |-> r.audio_file_path, language |-> LANGUAGE,
   fp16 |-> handle.fp16_mode, device |-> handle.device]

\* lines 42-49: the adapter returns a text
TranscribeOk(p) ==
  /\ req[p].pc = "line38"
  /\ req[p].audio_file_path # None
  /\ \E t \in Texts :
       Set(p, [req[p] EXCEPT !.pc = "line52", !.transcribed_text = t,
                 !.trace = Append2(@, TranscribeCall(req[p]), [op |-> "transcribed"])])
  /\ UNCHANGED <<handle, now, files, users, history>>

\* a failed transcription is tried again
TranscribeRetries(p) ==
  /\ req[p].pc = "line38"
  /\ req[p].audio_file_path # None
  /\ Set(p, [req[p] EXCEPT !.trace = Append(@, TranscribeCall(req[p]))])
  /\ UNCHANGED <<handle, now, files, users, history>>

\* lines 42-46: the adapter raises
TranscribeFails(p) ==
  /\ req[p].pc = "line38"
  /\ req[p].audio_file_path # None
  /\ \E e \in TranscribeErrors(req[p].audio_file_path) :
       Set(p, Raise([req[p] EXCEPT !.trace = Append(@, TranscribeCall(req[p]))], e))
  /\ UNCHANGED <<handle, now, files, users, history>>

\* lines 52-57
OutputPath(a, t) ==
  LET timestamp           == strftime(DateTimeAt(t))
      original_filename   == basename(a)
      base_name           == splitext(original_filename)[1]
      output_txt_filename == base_name \o <<"_">> \o timestamp
                               \o <<".", "t", "x", "t">>
  IN join(OUTPUT_DIR, output_txt_filename)

Name(p) ==
  /\ req[p].pc = "line52"
  /\ Set(p, [req[p] EXCEPT !.pc = "line60",
               !.trace = Append(@, [op |-> "now", t |-> now]),
               !.timestamp = strftime(DateTimeAt(now)),
               !.output_txt_path = OutputPath(req[p].audio_file_path, now)])
  /\ UNCHANGED <<handle, now, files, users, history>>

\* open(path, "w"): the file is created or truncated
OpenW(fs, path) == Put(fs, path, <<>>)

\* line 60: the file is opened
OpenOk(p) ==
  /\ req[p].pc = "line60"
  /\ files' = OpenW(files, req[p].output_txt_path)
  /\ users' = Put(users, req[p].output_txt_path, <<p>>)
  /\ Set(p, [req[p] EXCEPT !.pc = "line61",
               !.trace = Append2(@, [op |-> "open", path |-> req[p].output_txt_path],
                                    [op |-> "opened"])])
  /\ UNCHANGED <<handle, now, history>>

\* line 60: open raises, no file is created or changed
OpenFails(p) ==
  /\ req[p].pc = "line60"
  /\ \E e \in OpenErrors(req[p].output_txt_path) :
       Set(p, Raise([req[p] EXCEPT
              !.trace = Append(@, [op |-> "open", path |-> req[p].output_txt_path])], e))
  /\ UNCHANGED <<handle, now, files, users, history>>

\* print(text, file=f): a newline follows the text
WriteTextNewline(fs, path, text) ==
  Put(fs, path, WriteAt0(fs[path], Encode(text) \o <<10>>))

\* a file opened for appending: every write goes to the end of the file
WriteTextAppend(fs, path, text) == Put(fs, path, fs[path] \o Encode(text))

\* f.write(text) and the close at the end of the with block: the encoded
\* text is written at the start of the file
WriteText(fs, path, text) == Put(fs, path, WriteAt0(fs[path], Encode(text)))

\* lines 61-62: the text is written and the file closed
WriteOk(p) ==
  /\ req[p].pc = "line61"
  /\ files' = WriteText(files, req[p].output_txt_path, req[p].transcribed_text)
  /\ users' = [users EXCEPT ![req[p].output_txt_path] = Append(@, p)]
  /\ Set(p, [req[p] EXCEPT !.pc = "line65", !.trace = Append(@, [op |-> "written", t |-> now])])
  /\ UNCHANGED <<handle, now, history>>

\* line 61: the write fails after k bytes, k less than the whole text
WriteFails(p) ==
  /\ req[p].pc = "line61"
  /\ LET path == req[p].output_txt_path
         data == Encode(req[p].transcribed_text)
     IN \E k \in 0..Max(0, Len(data) - 1), e \in WriteErrors :
          /\ files' = Put(files, path, WriteAt0(files[path], SubSeq(data, 1, k)))
          /\ users' = [users EXCEPT ![path] = Append(@, p)]
          /\ Set(p, Raise(req[p], e))
  /\ UNCHANGED <<handle, now, history>>

\* a message that leaves the error out
error_message_generic(e) ==
  <<"An error occurred during transcription.", "\n\n",
    "Please ensure FFmpeg is installed and correctly configured in your system's PATH.",
    "\n",
    "If using GPU, check your CUDA/cuDNN installation and PyTorch's CUDA availability.">>

\* lines 68-70
error_message(e) ==
  <<"An error occurred during transcription: ">> \o str(e) \o
  <<"\n\n",
    "Please ensure FFmpeg is installed and correctly configured in your system's PATH.",
    "\n",
    "If using GPU, check your CUDA/cuDNN installation and PyTorch's CUDA availability.">>

\* lines 67-72
Except(p) ==
  /\ req[p].pc = "except"
  /\ Set(p, [req[p] EXCEPT !.pc = "returned",
                           !.result = <<error_message(req[p].e), None>>])
  /\ UNCHANGED <<handle, now, files, users, history>>

\* the elapsed seconds as HH:MM:SS
format_duration(elapsed) ==
  Pad(elapsed \div 3600, 2) \o <<":">> \o Pad((elapsed % 3600) \div 60, 2)
    \o <<":">> \o Pad(elapsed % 60, 2)

\* a return that adds the time since the transcription ended
ReturnWithDuration(p) ==
  /\ req[p].pc = "line65"
  /\ Set(p, [req[p] EXCEPT !.pc = "returned",
               !.result = <<req[p].transcribed_text, req[p].output_txt_path,
                            format_duration(now - Last(req[p].trace).t)>>])
  /\ UNCHANGED <<handle, now, files, users, history>>

\* line 65
Return(p) ==
  /\ req[p].pc = "line65"
  /\ Set(p, [req[p] EXCEPT !.pc = "returned",
               !.result = <<req[p].transcribed_text, req[p].output_txt_path>>])
  /\ UNCHANGED <<handle, now, files, users, history>>

\* lines 78-81: the outputs of the form
outputs == <<"Textbox", "File">>

\* the framework takes the result and the worker is free again
Deliver(p) ==
  /\ req[p].pc = "returned"
  /\ history' = Append(history,
       [audio_file_path |-> req[p].audio_file_path, result |-> req[p].result,
        timestamp |-> req[p].timestamp, output_txt_path |-> req[p].output_txt_path,
        trace |-> req[p].trace])
  /\ Set(p, Idle)
  /\ UNCHANGED <<handle, now, files, users>>

\* ---------------------------------------------------------- specifications
\* requests handled one at a time
SeqCall ==
  /\ \A q \in Procs : req[q].pc = "idle"
  /\ \E a \in Uploads \cup {None} : Call(1, a)

SeqNoFile == NoFile(1)
SeqTranscribeOk == TranscribeOk(1)
SeqTranscribeFails == TranscribeFails(1)
SeqName == Name(1)
SeqOpenOk == OpenOk(1)
SeqOpenFails == OpenFails(1)
SeqWriteOk == WriteOk(1)
SeqWriteFails == WriteFails(1)
SeqExcept == Except(1)
SeqReturn == Return(1)
SeqDeliver == Deliver(1)

Next ==
  \/ Tick
  \/ SeqCall
  \/ SeqNoFile
  \/ SeqTranscribeOk
  \/ SeqTranscribeFails
  \/ SeqName
  \/ SeqOpenOk
  \/ SeqOpenFails
  \/ SeqWriteOk
  \/ SeqWriteFails
  \/ SeqExcept
  \/ SeqReturn
  \/ SeqDeliver

Spec == Init /\ [][Next]_vars

\* the framework runs the handler for two requests at once
\* a request goes to the first free worker
ConcCall ==
  \E p \in Procs, a \in ConcUploads \cup {None} :
    /\ \A q \in Procs : q < p => req[q].pc # "idle"
    /\ Call(p, a)
ConcNoFile == \E p \in Procs : NoFile(p)
ConcTranscribeOk == \E p \in Procs : TranscribeOk(p)
ConcTranscribeFails == \E p \in Procs : TranscribeFails(p)
ConcName == \E p \in Procs : Name(p)
ConcOpenOk == \E p \in Procs : OpenOk(p)
ConcOpenFails == \E p \in Procs : OpenFails(p)
ConcWriteOk == \E p \in Procs : WriteOk(p)
ConcWriteFails == \E p \in Procs : WriteFails(p)
ConcExcept == \E p \in Procs : Except(p)
ConcReturn == \E p \in Procs : Return(p)
ConcDeliver == \E p \in Procs : Deliver(p)

NextConc ==
  \/ Tick
  \/ ConcCall
  \/ ConcNoFile
  \/ ConcTranscribeOk
  \/ ConcTranscribeFails
  \/ ConcName
  \/ ConcOpenOk
  \/ ConcOpenFails
  \/ ConcWriteOk
  \/ ConcWriteFails
  \/ ConcExcept
  \/ ConcReturn
  \/ ConcDeliver

SpecConc == Init /\ [][NextConc]_vars

\* one request, its path drawn from every path up to MaxPathLen characters
PathCall ==
  /\ history = <<>>
  /\ \A q \in Procs : req[q].pc = "idle"
  /\ \E a \in Paths : Call(1, a)

NextPath ==
  \/ Tick
  \/ PathCall
  \/ SeqTranscribeOk
  \/ SeqTranscribeFails
  \/ SeqName
  \/ SeqOpenOk
  \/ SeqOpenFails
  \/ SeqWriteOk
  \/ SeqWriteFails
  \/ SeqExcept
  \/ SeqReturn
  \/ SeqDeliver

SpecPath == Init /\ [][NextPath]_vars

\* ------------------------------------------------------------ properties
Returned(p) == req[p].pc = "returned"

\* the request returned an output path
Succeeded(r) == Len(r.result) >= 2 /\ r.result[2] # None

Ops(tr, o) == {i \in 1..Len(tr) : tr[i].op = o}

\* d occurs in msg as a run of consecutive pieces that ends before index j
OccursBefore(d, msg, j) ==
  \E i \in 1..j : i + Len(d) <= j /\ SubSeq(msg, i, i + Len(d) - 1) = d

Hint1 == "Please ensure FFmpeg is installed and correctly configured in your system's PATH."

Hint2 == "If using GPU, check your CUDA/cuDNN installation and PyTorch's CUDA availability."

\* the text is the diagnostic of error e: its description, then the two hints
IsDiagnosticOf(msg, e) ==
  \E j, k \in 1..Len(msg) :
    /\ j < k
    /\ msg[j] = Hint1
    /\ msg[k] = Hint2
    /\ OccursBefore(str(e), msg, j)

\* C1: a call whose file reference is None returns the text "Please upload
\* an audio file." and the path None, whatever was handled before it.
C1_NoFilePrompt ==
  \A p \in Procs :
    Returned(p) /\ req[p].audio_file_path = None
      => req[p].result = <<<<"Please upload an audio file.">>, None>>

C1_Witness ==
  /\ Returned(1)
  /\ req[1].audio_file_path = None
  /\ Len(history) = 1
  /\ Succeeded(history[1])

\* the adapter was called and raised
AdapterFailed(r) == r.trace # <<>> /\ Last(r.trace).op = "transcribe"

\* C2: when model.transcribe fails with error e, the handler returns a text
\* that contains the description of e followed by the two remediation
\* hints, and the path None.
C2_AdapterFailureReported ==
  \A p \in Procs :
    Returned(p) /\ AdapterFailed(req[p])
      => /\ req[p].result[2] = None
         /\ Len(req[p].result) = 2
         /\ IsDiagnosticOf(req[p].result[1], req[p].e)

C2_Witness ==
  /\ Returned(1)
  /\ AdapterFailed(req[1])
  /\ req[1].e.type = "FileNotFoundError"
  /\ Len(history) = 1

\* the digits of a decimal numeral, as a number
DigitValue(ch) == CHOOSE k \in 0..9 : Digit(k) = ch

IsNumeral(s) == \A i \in 1..Len(s) : \E k \in 0..9 : Digit(k) = s[i]

RECURSIVE Num(_)
Num(s) == IF s = <<>> THEN 0 ELSE 10 * Num(SubSeq(s, 1, Len(s) - 1)) + DigitValue(Last(s))

\* ts is YYYYMMDD_HHMMSS and reads the date and time dt
IsTimestampOf(ts, dt) ==
  /\ Len(ts) = 15
  /\ ts[9] = "_"
  /\ IsNumeral(SubSeq(ts, 1, 8)) /\ IsNumeral(SubSeq(ts, 10, 15))
  /\ Num(SubSeq(ts, 1, 4)) = dt.year
  /\ Num(SubSeq(ts, 5, 6)) = dt.month
  /\ Num(SubSeq(ts, 7, 8)) = dt.day
  /\ Num(SubSeq(ts, 10, 11)) = dt.hour
  /\ Num(SubSeq(ts, 12, 13)) = dt.minute
  /\ Num(SubSeq(ts, 14, 15)) = dt.second

\* c is the last component of the path a
IsLastComponent(c, a) ==
  /\ Len(c) <= Len(a)
  /\ c = From(a, Len(a) - Len(c) + 1)
  /\ "/" \notin Range(c)
  /\ Len(c) < Len(a) => a[Len(a) - Len(c)] = "/"

\* b is the file name c without its final extension: what follows b is
\* one dot-led run with no further dot, after a name that is not all dots;
\* c stays whole when it has no dot after its first character that is
\* not a dot
IsWithoutExtension(b, c) ==
  LET x == From(c, Len(b) + 1)
  IN /\ Len(b) <= Len(c)
     /\ b = SubSeq(c, 1, Len(b))
     /\ IF x = <<>>
          THEN ~ \E i, j \in 1..Len(c) : i < j /\ c[i] # "." /\ c[j] = "."
          ELSE /\ x[1] = "."
               /\ "." \notin Range(Tail(x))
               /\ \E i \in 1..Len(b) : b[i] # "."

TranscriptionsSlash ==
  <<"T", "r", "a", "n", "s", "c", "r", "i", "p", "t", "i", "o", "n", "s", "/">>

\* path is Transcriptions/{base_name}_{timestamp}.txt for the input a read
\* at clock t
IsOutputPathOf(path, a, t) ==
  LET n    == Len(path)
      name == SubSeq(path, 16, n)
      m    == Len(name)
      b    == SubSeq(name, 1, m - 20)
  IN /\ n >= 35
     /\ SubSeq(path, 1, 15) = TranscriptionsSlash
     /\ SubSeq(name, m - 3, m) = <<".", "t", "x", "t">>
     /\ IsTimestampOf(SubSeq(name, m - 18, m - 4), DateTimeAt(t))
     /\ name[m - 19] = "_"
     /\ \E k \in 1..Len(a) :
          /\ IsLastComponent(From(a, k), a)
          /\ IsWithoutExtension(b, From(a, k))

\* the clock value the request read at line 52
ClockRead(r) == r.trace[CHOOSE i \in Ops(r.trace, "now") : TRUE].t

\* C4: a successful call on input path a returns "Transcriptions" joined
\* with base_name_timestamp.txt, base_name the last component of a without
\* its final extension, timestamp the current time as YYYYMMDD_HHMMSS.
C4_OutputPathShape ==
  \A p \in Procs :
    Returned(p) /\ Succeeded(req[p])
      => IsOutputPathOf(req[p].result[2], req[p].audio_file_path, ClockRead(req[p]))

C4_Witness ==
  /\ Returned(1)
  /\ Succeeded(req[1])
  /\ "/" \in Range(req[1].audio_file_path)
  /\ splitext(basename(req[1].audio_file_path))[2] # <<>>
  /\ ClockRead(req[1]) > 0

\* C8: within one request the adapter is invoked at most once, the output
\* file is opened at most once and only after the adapter has returned; a
\* request with no file reference invokes neither.
C8_StepsOnceInOrder ==
  \A p \in Procs :
    LET tr == req[p].trace
    IN /\ Cardinality(Ops(tr, "transcribe")) <= 1
       /\ Cardinality(Ops(tr, "open")) <= 1
       /\ \A i \in Ops(tr, "open") : \E j \in Ops(tr, "transcribed") : j < i
       /\ \A i \in Ops(tr, "transcribe") :
            /\ tr[i].device = handle.device
            /\ tr[i].audio = req[p].audio_file_path
       /\ req[p].audio_file_path = None /\ req[p].pc # "idle" => tr = <<>>

C8_Witness ==
  /\ Returned(1)
  /\ Cardinality(Ops(req[1].trace, "open")) = 1
  /\ Cardinality(Ops(req[1].trace, "transcribe")) = 1
  /\ ~ Succeeded(req[1])
  /\ Len(history) = 1
  /\ AdapterFailed(history[1])

\* ----------------------------------------------------- reading a file back
chr(c) ==
  IF \E ch \in TextChars : ord(ch) = c
    THEN CHOOSE ch \in TextChars : ord(ch) = c
    ELSE "U+FFFD"

IsContinuation(b) == b >= 128 /\ b < 192

\* bytes.decode("utf-8", errors="replace"): a byte that starts no complete
\* well-formed sequence reads as U+FFFD
RECURSIVE Decode(_)
Decode(b) ==
  IF b = <<>> THEN <<>>
  ELSE LET n == IF b[1] < 128 THEN 1
                ELSE IF b[1] < 192 THEN 0
                ELSE IF b[1] < 224 THEN 2
                ELSE IF b[1] < 240 THEN 3 ELSE 4
           ok == n > 0 /\ Len(b) >= n /\ \A i \in 2..n : IsContinuation(b[i])
           cp == IF n = 1 THEN b[1]
                 ELSE IF n = 2 THEN (b[1] - 192) * 64 + (b[2] - 128)
                 ELSE IF n = 3
                   THEN (b[1] - 224) * 4096 + (b[2] - 128) * 64 + (b[3] - 128)
                 ELSE (b[1] - 240) * 262144 + (b[2] - 128) * 4096
                        + (b[3] - 128) * 64 + (b[4] - 128)
       IN IF ok THEN <<chr(cp)>> \o Decode(From(b, n + 1))
          ELSE <<"U+FFFD">> \o Decode(Tail(b))

\* the file at path exists and reads back as text
HoldsText(path, text) == path \in DOMAIN files /\ Decode(files[path]) = text

Opened(r, path) ==
  \E i \in Ops(r.trace, "open") :
    r.trace[i].path = path /\ i < Len(r.trace) /\ r.trace[i + 1].op = "opened"

\* nothing but requests i and j of the history has opened path
OnlyOpenedBy(path, i, j) ==
  /\ \A k \in 1..Len(history) : k \notin {i, j} => ~ Opened(history[k], path)
  /\ \A p \in Procs : ~ Opened(req[p], path)

BaseName(r) == splitext(basename(r.audio_file_path))[1]

Failed(r) == r.audio_file_path # None /\ Len(r.result) >= 2 /\ r.result[2] = None

\* C6: every failure of a request that has a file ends it with the
\* diagnostic text and no path and never leaves the handler as an
\* exception; the model handle is never changed; after a failed request
\* the next call is accepted and a next successful request returns its own
\* path with its own text in the file.
C6_FailuresStayInline ==
  /\ [](\A p \in Procs : req[p].pc # "raised")
  /\ [](\A p \in Procs :
          Returned(p) /\ Failed(req[p])
            => /\ Len(req[p].result) = 2
               /\ IsDiagnosticOf(req[p].result[1], req[p].e))
  /\ [][handle' = handle]_vars
  /\ [](/\ history # <<>>
        /\ Failed(Last(history))
        /\ Len(history) < MaxRequests
        /\ \A p \in Procs : req[p].pc = "idle"
        => ENABLED SeqCall)
  /\ [](\A p \in Procs :
          /\ Returned(p) /\ Succeeded(req[p])
          /\ history # <<>> /\ Failed(Last(history))
          => /\ HoldsText(req[p].result[2], req[p].result[1])
             /\ IsOutputPathOf(req[p].result[2], req[p].audio_file_path,
                               ClockRead(req[p])))

C6_Witness ==
  /\ Returned(1)
  /\ Succeeded(req[1])
  /\ Len(history) = 1
  /\ Failed(history[1])
  /\ Opened(history[1], req[1].result[2])
  /\ req[1].result[2] \in DOMAIN req[1].before
  /\ req[1].before[req[1].result[2]] # <<>>
  /\ req[1].result[1] = <<"a">>

\* C9: a request that returns no output path leaves the files of the
\* output directory and their contents as they were before the request.
C9_NoPathNoFileChange ==
  \A p \in Procs :
    Returned(p) /\ ~ Succeeded(req[p]) => files = req[p].before

IsPrefix(x, y) == Len(x) <= Len(y) /\ SubSeq(y, 1, Len(x)) = x

\* two successful requests of the history that returned the same path,
\* which nothing else has opened
SharePath(i, j) ==
  /\ i < j
  /\ Succeeded(history[i]) /\ Succeeded(history[j])
  /\ history[i].result[2] = history[j].result[2]
  /\ OnlyOpenedBy(history[i].result[2], i, j)

IsDuration(s, n) ==
  /\ Len(s) = 8
  /\ s[3] = ":" /\ s[6] = ":"
  /\ IsNumeral(SubSeq(s, 1, 2)) /\ IsNumeral(SubSeq(s, 4, 5)) /\ IsNumeral(SubSeq(s, 7, 8))
  /\ Num(SubSeq(s, 4, 5)) < 60
  /\ Num(SubSeq(s, 7, 8)) < 60
  /\ Num(SubSeq(s, 1, 2)) * 3600 + Num(SubSeq(s, 4, 5)) * 60 + Num(SubSeq(s, 7, 8)) = n

\* C7 as stated: on success the handler returns three parts, text, path
\* and the elapsed time of the transcription as HH:MM:SS.
C7_ThreePartResult ==
  \A p \in Procs :
    Returned(p) /\ Succeeded(req[p])
      => /\ Len(req[p].result) = 3
         /\ \E n \in 0..now : IsDuration(req[p].result[3], n)

\* C7 as amended: on success the handler returns two parts, the text and
\* the output path, one for each output of the form, and no duration.
C7_TwoPartResult ==
  \A p \in Procs :
    Returned(p) /\ Succeeded(req[p])
      => /\ req[p].result = <<req[p].transcribed_text, req[p].output_txt_path>>
         /\ Len(req[p].result) = Len(outputs)
         /\ \A i \in 1..Len(req[p].result) :
              ~ \E n \in 0..now : IsDuration(req[p].result[i], n)

C7_Witness ==
  /\ Returned(1)
  /\ Succeeded(req[1])
  /\ now = ClockRead(req[1]) + 2
  /\ Len(history) = 1

====
